---- MODULE Spec2Model ----
(***************************************************************************)
(* Iris core-llm native layer: the session registry of jni_bridge.cpp, the *)
(* GenerationEngine of generation_engine.cpp and the ModelManager of       *)
(* model_manager.cpp.                                                      *)
(*                                                                         *)
(* Five specifications share the definitions below:                        *)
(*   Spec         the JNI entry points as atomic handlers over the registry*)
(*   HistorySpec  Spec, recording the session ids that unloads have erased *)
(*   EngineSpec   one GenerationEngine driven through its public methods   *)
(*   SamplerSpec  sampleToken applied to a logits buffer                   *)
(*   ThreadSpec   threads calling the JNI entry points, with the mutex and *)
(*                the span of each llama_decode call made explicit         *)
(***************************************************************************)
EXTENDS Integers, Sequences, FiniteSets, TLC

(***************************************************************************)
(* Bounds of the model                                                     *)
(***************************************************************************)
\* wall-clock milliseconds run over 0..MaxClock
MaxClock == 1
\* number of ModelManager objects ever registered
MaxMgrs == 2
\* longest token history of an engine
MaxLen == 2
\* finite logits are drawn from 0..MaxLogit
MaxLogit == 1
\* threads of ThreadSpec
MaxThreads == 2
\* Model Handles one ModelManager creates in ManagerSpec
MaxLoads == 2

(***************************************************************************)
(* Program constants                                                       *)
(***************************************************************************)
\* std::uniform_int_distribution<> dis(1000, 9999)
SuffixMin == 1000
\* char buffer[256]
BufferSize == 256
\* width of size_t in the model (64 in the program; any width gives the
\* same wrap of a negative int to a value above every cursor of the model)
SizeBits == 16

SizeModulus == 2 ^ SizeBits

\* the random suffix of a model id is drawn from SuffixMin..MaxSuffix; the
\* range 1000..9999 of the program is cut down to its first value
MaxSuffix == SuffixMin
\* longest tokenized prompt
MaxPrompt == MaxLen - 1
\* maxTokens is drawn from -1..MaxBudget
MaxBudget == MaxLen - 1

\* static_cast<size_t>(int): the value modulo 2^w
ToSizeT(x) == x % SizeModulus

(***************************************************************************)
(* float: a finite score, NaN, +Inf or -Inf                                *)
(***************************************************************************)
Fin(v) == [cls |-> "fin", v |-> v]
NaN == [cls |-> "nan", v |-> 0]
PInf == [cls |-> "inf", v |-> 1]
NInf == [cls |-> "inf", v |-> -1]

IsFinite(a) == a.cls = "fin"

FKey(a) == IF a.cls = "inf" THEN a.v * (MaxLogit + 1) ELSE a.v

\* faulty variant of FGt: the comparison of line 148 written as >=
FGt_OrEqual(a, b) == a.cls # "nan" /\ b.cls # "nan" /\ FKey(a) >= FKey(b)

\* operator> on float: false whenever an operand is NaN
FGt(a, b) == a.cls # "nan" /\ b.cls # "nan" /\ FKey(a) > FKey(b)

(***************************************************************************)
(* The vocabulary of the loaded model (llama.cpp, consumed at its boundary)*)
(*   token 0: an ordinary token with a one-byte piece                      *)
(*   token 1: a control token, rendered as the empty piece                 *)
(*   token 2: the end-of-generation token                                  *)
(*   token 3: a token whose piece is longer than the caller's buffer       *)
(***************************************************************************)
\* llama_vocab_n_tokens(vocab): the number of tokens of the model's vocabulary
NVocab == 4
Vocab == 0 .. (NVocab - 1)

PieceOf(tok) ==
    CASE tok = 0 -> <<"a">>
      [] tok = 1 -> <<>>
      [] tok = 2 -> <<>>
      [] OTHER -> [i \in 1 .. (BufferSize + 1) |-> "x"]

llama_vocab_is_eog(tok) == tok = 2

\* the number of bytes written, or the negated size needed when it exceeds length
llama_token_to_piece(tok, length) ==
    IF Len(PieceOf(tok)) > length THEN 0 - Len(PieceOf(tok)) ELSE Len(PieceOf(tok))

LogitValues == {Fin(v) : v \in 0 .. MaxLogit} \cup {NaN, PInf, NInf}
LogitVectors == [Vocab -> LogitValues]
\* the logits the registry specifications draw from: one token scored highest
PeakedLogits == {[i \in Vocab |-> IF i = k THEN Fin(1) ELSE Fin(0)] : k \in Vocab}

(***************************************************************************)
(* GenerationEngine::sampleToken: the greedy scan of lines 144-154         *)
(***************************************************************************)
RECURSIVE ScanMax(_, _, _, _)
ScanMax(logits, i, max_token, max_logit) ==
    IF i >= NVocab THEN max_token
    ELSE IF FGt(logits[i], max_logit)
         THEN ScanMax(logits, i + 1, i, logits[i])
         ELSE ScanMax(logits, i + 1, max_token, max_logit)

sampleToken(logits) == ScanMax(logits, 1, 0, logits[0])

(***************************************************************************)
(* GenerationEngine (generation_engine.h: the private fields)              *)
(*   modelManager  reference to a ModelManager object, 0 for nullptr       *)
(*   context       TRUE when the llama_context pointer is non-null         *)
(***************************************************************************)
GenerationEngine(modelManager, context, maxTokens) ==
    [modelManager |-> modelManager,
     context |-> context,
     tokens |-> <<>>,
     currentTokenIndex |-> 0,
     maxTokens |-> maxTokens,
     isComplete |-> FALSE]

\* std::vector::resize: keeps the first n elements, value-initialises the rest
Resize(v, n) == [i \in 1 .. n |-> IF i <= Len(v) THEN v[i] ELSE 0]

(***************************************************************************)
(* GenerationEngine::startGeneration                                       *)
(*   toks    the tokenization of the prompt by the model's vocabulary      *)
(*   fill    the status of the filling llama_tokenize call (< 0: rejected) *)
(*   dec     the status of llama_decode on the prompt batch                *)
(*   clock   system_clock::now() in milliseconds                           *)
(* ok = FALSE stands for the exception thrown to the caller.               *)
(***************************************************************************)
StartNotInitialized(e) ==
    [eng |-> e, ok |-> FALSE, sessionId |-> -1, decoded |-> FALSE]

StartTokenizeFailed(e, toks) ==
    [eng |-> [e EXCEPT !.tokens = Resize(e.tokens, Len(toks))],
     ok |-> FALSE, sessionId |-> -1, decoded |-> FALSE]

\* faulty variant of StartDecodeFailed: the decode status is ignored
StartDecodeFailed_Ignored(e, toks) ==
    [eng |-> [e EXCEPT !.tokens = toks, !.currentTokenIndex = Len(toks)],
     ok |-> TRUE, sessionId |-> 0, decoded |-> TRUE]

StartDecodeFailed(e, toks) ==
    [eng |-> [e EXCEPT !.tokens = toks],
     ok |-> FALSE, sessionId |-> -1, decoded |-> TRUE]

StartPrimed(e, toks, clock) ==
    [eng |-> [e EXCEPT !.tokens = toks,
                       !.currentTokenIndex = Len(toks),
                       !.isComplete = FALSE],
     ok |-> TRUE, sessionId |-> clock, decoded |-> TRUE]

startGeneration(e, toks, fill, dec, clock) ==
    IF e.modelManager = 0 \/ ~e.context THEN StartNotInitialized(e)
    ELSE IF fill < 0 THEN StartTokenizeFailed(e, toks)
    ELSE IF dec # 0 THEN StartDecodeFailed(e, toks)
    ELSE StartPrimed(e, toks, clock)

(***************************************************************************)
(* GenerationEngine::generateNextToken                                     *)
(*   logits  the logits buffer of the context                              *)
(*   dec     the status of llama_decode on the one-token batch             *)
(* text is the returned std::string, as the sequence of its bytes; exit    *)
(* names the return statement the call left through.                       *)
(***************************************************************************)
StepIdle(e) ==
    [eng |-> e, text |-> <<>>, sampled |-> FALSE, decoded |-> FALSE,
     exit |-> "idle"]

StepBudget(e) ==
    [eng |-> [e EXCEPT !.isComplete = TRUE],
     text |-> <<>>, sampled |-> FALSE, decoded |-> FALSE,
     exit |-> "budget"]

StepEog(e) ==
    [eng |-> [e EXCEPT !.isComplete = TRUE],
     text |-> <<>>, sampled |-> TRUE, decoded |-> FALSE,
     exit |-> "eog"]

\* the catch block of lines 114-118
StepCaught(e) ==
    [eng |-> [e EXCEPT !.isComplete = TRUE],
     text |-> <<>>, sampled |-> TRUE, decoded |-> FALSE,
     exit |-> "caught"]

\* faulty variant of StepDecodeFailed: the engine is left streaming
StepDecodeFailed_StillStreaming(e, token) ==
    [eng |-> [e EXCEPT !.tokens = Append(e.tokens, token)],
     text |-> <<>>, sampled |-> TRUE, decoded |-> TRUE,
     exit |-> "decode"]

StepDecodeFailed(e, token) ==
    [eng |-> [e EXCEPT !.tokens = Append(e.tokens, token),
                       !.isComplete = TRUE],
     text |-> <<>>, sampled |-> TRUE, decoded |-> TRUE,
     exit |-> "decode"]

StepEmit(e, token, n) ==
    [eng |-> [e EXCEPT !.tokens = Append(e.tokens, token),
                       !.currentTokenIndex = e.currentTokenIndex + 1],
     text |-> SubSeq(PieceOf(token), 1, n), sampled |-> TRUE, decoded |-> TRUE,
     exit |-> "fragment"]

\* line 75: currentTokenIndex >= static_cast<size_t>(maxTokens)
BudgetReached(e) == e.currentTokenIndex >= ToSizeT(e.maxTokens)

generateNextToken(e, logits, dec) ==
    IF e.isComplete \/ e.modelManager = 0 \/ ~e.context THEN StepIdle(e)
    ELSE IF BudgetReached(e) THEN StepBudget(e)
    ELSE LET token == sampleToken(logits)
             n == llama_token_to_piece(token, BufferSize)
         IN  IF llama_vocab_is_eog(token) THEN StepEog(e)
             ELSE IF n < 0 THEN StepCaught(e)
             ELSE IF dec # 0 THEN StepDecodeFailed(e, token)
             ELSE StepEmit(e, token, n)

\* faulty variant of cancel: the flag is left as it is
cancel_NoEffect(e) == e

\* GenerationEngine::cancel
cancel(e) == [e EXCEPT !.isComplete = TRUE]

(***************************************************************************)
(* ModelManager (model_manager.h: the private fields)                      *)
(*   model, context  TRUE when the pointer is non-null                     *)
(*   alive           FALSE once the destructor has run                     *)
(***************************************************************************)
Suffixes == SuffixMin .. MaxSuffix
Clock == 0 .. MaxClock
ModelIds == Clock \X Suffixes
SessionIds == Clock
NoModelId == <<>>

\* ModelManager::ModelManager: "model_" << timestamp << "_" << dis(gen)
ModelManager(timestamp, suffix) ==
    [modelId |-> <<timestamp, suffix>>, model |-> FALSE, context |-> FALSE,
     alive |-> TRUE]

\* ModelManager::loadModel; ok = FALSE stands for the exception thrown
\*   line 41 assigns model, line 54 assigns context, whatever they held
loadModel(m, loadOk, ctxOk) ==
    IF ~loadOk THEN [mgr |-> [m EXCEPT !.model = FALSE], ok |-> FALSE]
    ELSE IF ~ctxOk THEN [mgr |-> [m EXCEPT !.model = FALSE, !.context = FALSE],
                         ok |-> FALSE]
    ELSE [mgr |-> [m EXCEPT !.model = TRUE, !.context = TRUE], ok |-> TRUE]

\* ModelManager::unloadModel
unloadModel(m) == [m EXCEPT !.context = FALSE, !.model = FALSE]

\* ModelManager::~ModelManager, followed by the destruction of the members
DestroyManager(m) == [unloadModel(m) EXCEPT !.alive = FALSE, !.modelId = NoModelId]

\* ModelManager::generateEmbedding: TRUE when a vector is returned,
\* FALSE when an exception is thrown
\*   n    the token count of the last llama_tokenize call
\*   dec  the status of llama_decode; emb: llama_get_embeddings is non-null
generateEmbedding(m, n, dec, emb) ==
    m.model /\ m.context /\ n >= 0 /\ dec = 0 /\ emb

\* whether generateEmbedding reaches its llama_decode call
EmbeddingDecodes(m, n) == m.model /\ m.context /\ n >= 0

(***************************************************************************)
(* The backend objects a ModelManager creates and releases                 *)
(*   "new_model"    llama_load_model_from_file returned a Model Handle     *)
(*   "new_context"  llama_new_context_with_model returned a context        *)
(*   "free_model"   llama_free_model(model)                                *)
(*   "free_context" llama_free(context)                                    *)
(* A ledger holds, per object created and in creation order, the number of *)
(* times it has been released. The pointer a manager holds is always the   *)
(* object of its kind created last.                                        *)
(***************************************************************************)
\* ModelManager::loadModel, lines 41-59
LoadEvents(loadOk, ctxOk) ==
    IF ~loadOk THEN <<>>
    ELSE IF ~ctxOk THEN <<"new_model", "free_model">>
    ELSE <<"new_model", "new_context">>

\* faulty variant of UnloadEvents: the Model Handle is released first
UnloadEvents_ModelFirst(m) ==
    (IF m.model THEN <<"free_model">> ELSE <<>>)
        \o (IF m.context THEN <<"free_context">> ELSE <<>>)

\* ModelManager::unloadModel, lines 71-79
UnloadEvents(m) ==
    (IF m.context THEN <<"free_context">> ELSE <<>>)
        \o (IF m.model THEN <<"free_model">> ELSE <<>>)

Release(counts) == [counts EXCEPT ![Len(counts)] = @ + 1]

ApplyEvent(L, ev) ==
    CASE ev = "new_model" -> [L EXCEPT !.model = Append(@, 0)]
      [] ev = "new_context" -> [L EXCEPT !.context = Append(@, 0)]
      [] ev = "free_model" -> [L EXCEPT !.model = Release(@)]
      [] ev = "free_context" -> [L EXCEPT !.context = Release(@)]

RECURSIVE Post(_, _)
Post(L, events) ==
    IF events = <<>> THEN L ELSE Post(ApplyEvent(L, Head(events)), Tail(events))

(***************************************************************************)
(* NativeState (jni_bridge.cpp) and the objects it owns                    *)
(***************************************************************************)
VARIABLES
    now,        \* system_clock, in milliseconds
    backend,    \* TRUE between llama_backend_init and llama_backend_free
    heap,       \* the ModelManager objects constructed so far, by reference
    models,     \* NativeState::models: model id -> reference into heap
    sessions,   \* NativeState::sessions: session id -> GenerationEngine
    crashed,    \* the process died on an access to a destroyed object
    last,       \* the call that returned last, with what it returned
    unloaded,   \* HistorySpec: the session ids that nativeUnloadModel has erased
    eng,        \* EngineSpec: the engine under test
    elast,      \* EngineSpec: the last method call and its result
    slogits,    \* SamplerSpec: the logits buffer
    stoken,     \* SamplerSpec: the token sampleToken returned, -1 before the call
    pc,         \* ThreadSpec: where each thread stands
    mutex,      \* ThreadSpec: the thread holding NativeState::mutex, 0 if free
    decoding,   \* ThreadSpec: the context each thread is decoding on, 0 if none
    interfered, \* ThreadSpec: another call returned while the thread was inside
    mm,         \* ManagerSpec: the ModelManager under test
    ledger,     \* ManagerSpec: per handle the manager created, its releases
    mlast       \* ManagerSpec: the last method call and what it did

registryVars == <<now, backend, heap, models, sessions, crashed, last>>
historyVars == <<unloaded>>
engineVars == <<eng, elast>>
samplerVars == <<slogits, stoken>>
threadVars == <<pc, mutex, decoding, interfered>>
managerVars == <<mm, ledger, mlast>>
vars == <<registryVars, historyVars, engineVars, samplerVars, threadVars, managerVars>>

EmptyMap == <<>>
Put(f, k, v) == [x \in (DOMAIN f) \cup {k} |-> IF x = k THEN v ELSE f[x]]
Erase(f, K) == [x \in (DOMAIN f) \ K |-> f[x]]

\* what a JNI entry point returned
\*   ok    FALSE when it failed: a Java exception is pending, it returned
\*         -1 (nativeInitializeBackend) or JNI_FALSE (nativeUnloadModel), or
\*         the process died inside it (crashed)
\*   hit   TRUE when the id passed in was found in its map
\*   sid   the session id passed in or returned, -1 if none
\*   text  the fragment returned by nativeGenerateNextToken, <<>> for nullptr
\*   exit  the return statement generateNextToken left through, "none" when
\*         the entry point did not call it
Returned(op, ok, hit, sid, text) ==
    [seq |-> 1 - last.seq, op |-> op, ok |-> ok, hit |-> hit, sid |-> sid, text |-> text,
     exit |-> "none"]

\* the engine's manager has been destroyed: every access through it is undefined
Dangling(e) == e.modelManager # 0 /\ ~heap[e.modelManager].alive

\* GenerationEngine::getModelId, for an engine whose manager is alive
getModelId(e) ==
    IF e.modelManager # 0 THEN heap[e.modelManager].modelId ELSE NoModelId

(***************************************************************************)
(* Inputs of the entry points                                              *)
(***************************************************************************)
BackendTypes == {0, 3}
Budgets == -1 .. MaxBudget
\* the budgets the registry specifications draw from
RegistryBudgets == {-1, MaxBudget}
PromptTokens == {[i \in 1 .. n |-> 0] : n \in 0 .. MaxPrompt}
\* the status values of llama_tokenize (filling call) and llama_decode
Statuses == {0, -1}

\* what the backend answers to one nativeStartGeneration: a rejected
\* tokenization, a rejected prompt batch, or a primed prompt
StartAnswers ==
    {[toks |-> <<>>, fill |-> -1, dec |-> 0], [toks |-> <<>>, fill |-> 0, dec |-> -1]}
    \cup {[toks |-> t, fill |-> 0, dec |-> 0] : t \in PromptTokens}

\* what the backend answers to one nativeGenerateEmbedding
EmbedAnswers ==
    {[n |-> 1, dec |-> 0, emb |-> TRUE], [n |-> -1, dec |-> 0, emb |-> TRUE],
     [n |-> 1, dec |-> -1, emb |-> TRUE], [n |-> 1, dec |-> 0, emb |-> FALSE]}

(***************************************************************************)
(* nativeInitializeBackend: llama_backend_init runs before the switch      *)
(***************************************************************************)
NativeInitializeBackend(backend_type) ==
    /\ ~crashed
    /\ backend' = TRUE
    /\ last' = Returned("init", backend_type \in 0 .. 2, FALSE, -1, <<>>)
    /\ UNCHANGED <<now, heap, models, sessions, crashed>>

(***************************************************************************)
(* nativeLoadModel                                                         *)
(*   state.models[modelId] = std::move(modelManager) destroys the manager  *)
(*   the map held under modelId, if there was one                          *)
(***************************************************************************)
AssignModel(H, M, id, m) ==
    Append(IF id \in DOMAIN M THEN [H EXCEPT ![M[id]] = DestroyManager(@)] ELSE H, m)

NativeLoadModel(suffix, loadOk, ctxOk) ==
    /\ ~crashed
    /\ LET r == loadModel(ModelManager(now, suffix), loadOk, ctxOk)
           id == r.mgr.modelId
       IN  IF r.ok
           THEN /\ Len(heap) < MaxMgrs
                /\ heap' = AssignModel(heap, models, id, r.mgr)
                /\ models' = Put(models, id, Len(heap) + 1)
                /\ last' = Returned("load", TRUE, FALSE, -1, <<>>)
           ELSE /\ last' = Returned("load", FALSE, FALSE, -1, <<>>)
                /\ UNCHANGED <<heap, models>>
    /\ UNCHANGED <<now, backend, sessions, crashed>>

(***************************************************************************)
(* nativeStartGeneration                                                   *)
(***************************************************************************)
\* state.sessions[std::to_string(sessionId)] = std::move(genEngine)
RegisterSession(S, sessionId, e) == Put(S, sessionId, e)

NativeStartGeneration(mid, toks, fill, dec, maxTokens) ==
    /\ ~crashed
    /\ IF mid \notin DOMAIN models
       THEN /\ last' = Returned("start", FALSE, FALSE, -1, <<>>)
            /\ UNCHANGED sessions
       ELSE LET m == models[mid]
                r == startGeneration(GenerationEngine(m, heap[m].context, maxTokens),
                                     toks, fill, dec, now)
            IN  /\ sessions' = IF r.ok THEN RegisterSession(sessions, r.sessionId, r.eng)
                                       ELSE sessions
                /\ last' = Returned("start", r.ok, TRUE, r.sessionId, <<>>)
    /\ UNCHANGED <<now, backend, heap, models, crashed>>

(***************************************************************************)
(* nativeGenerateNextToken                                                 *)
(*   sampling and decoding through a destroyed manager is undefined: the   *)
(*   process dies, or the call goes on with whatever the freed memory gives*)
(***************************************************************************)
\* faulty variant of NotFound: the miss is thrown as an exception
NotFound_Throws(sid) == Returned("next", FALSE, FALSE, sid, <<>>)

\* lines 183-185: no such session, return nullptr
NotFound(sid) == Returned("next", TRUE, FALSE, sid, <<>>)

\* lines 188-192: an empty string erases the session
AfterStep(S, sid, r) ==
    IF r.text = <<>> THEN Erase(S, {sid}) ELSE [S EXCEPT ![sid] = r.eng]

NativeGenerateNextToken(sid, logits, dec) ==
    /\ ~crashed
    /\ IF sid \notin DOMAIN sessions
       THEN /\ last' = NotFound(sid)
            /\ UNCHANGED <<sessions, crashed>>
       ELSE LET e == sessions[sid]
                r == generateNextToken(e, logits, dec)
            IN  /\ Len(r.eng.tokens) <= MaxLen
                /\ \/ /\ sessions' = AfterStep(sessions, sid, r)
                      /\ last' = [Returned("next", TRUE, TRUE, sid, r.text)
                                     EXCEPT !.exit = r.exit]
                      /\ UNCHANGED crashed
                   \/ /\ Dangling(e) /\ r.sampled
                      /\ crashed' = TRUE
                      /\ last' = Returned("next", FALSE, TRUE, sid, <<>>)
                      /\ UNCHANGED sessions
    /\ UNCHANGED <<now, backend, heap, models>>

(***************************************************************************)
(* nativeGenerateEmbedding                                                 *)
(***************************************************************************)
\* a faulty variant: clearing the context's cache also ends the model's sessions
NativeGenerateEmbedding_EndsSessions(mid, n, dec, emb) ==
    /\ ~crashed
    /\ IF mid \notin DOMAIN models
       THEN /\ last' = Returned("embed", FALSE, FALSE, -1, <<>>)
            /\ sessions' = sessions
       ELSE /\ last' = Returned("embed", generateEmbedding(heap[models[mid]], n, dec, emb),
                                TRUE, -1, <<>>)
            /\ sessions' = Erase(sessions, {s \in DOMAIN sessions :
                                              sessions[s].modelManager = models[mid]})
    /\ UNCHANGED <<now, backend, heap, models, crashed>>

NativeGenerateEmbedding(mid, n, dec, emb) ==
    /\ ~crashed
    /\ IF mid \notin DOMAIN models
       THEN last' = Returned("embed", FALSE, FALSE, -1, <<>>)
       ELSE last' = Returned("embed", generateEmbedding(heap[models[mid]], n, dec, emb),
                             TRUE, -1, <<>>)
    /\ UNCHANGED <<now, backend, heap, models, sessions, crashed>>

(***************************************************************************)
(* nativeUnloadModel                                                       *)
(*   the loop of lines 256-263 asks every session for getModelId(); for a  *)
(*   session whose manager is destroyed the answer is undefined (stray: the*)
(*   sessions for which it happened to equal the id), or the process dies  *)
(***************************************************************************)
DanglingIn(H, S) == {s \in DOMAIN S : S[s].modelManager # 0 /\ ~H[S[s].modelManager].alive}

BoundTo(H, S, mid) ==
    {s \in (DOMAIN S) \ DanglingIn(H, S) :
        S[s].modelManager # 0 /\ H[S[s].modelManager].modelId = mid}

\* the sessions map after the loop, run against the heap H
EraseSessionsOf(H, S, mid, stray) == Erase(S, BoundTo(H, S, mid) \cup stray)

\* state.models.erase(modelIt)
EraseModel(H, M, mid) == [H EXCEPT ![M[mid]] = DestroyManager(@)]

NativeUnloadModel(mid) ==
    /\ ~crashed
    /\ IF mid \notin DOMAIN models
       THEN /\ last' = Returned("unload", FALSE, FALSE, -1, <<>>)
            /\ UNCHANGED <<heap, models, sessions, crashed>>
       ELSE \/ \E stray \in SUBSET DanglingIn(heap, sessions) :
                 /\ sessions' = EraseSessionsOf(heap, sessions, mid, stray)
                 /\ heap' = EraseModel(heap, models, mid)
                 /\ models' = Erase(models, {mid})
                 /\ last' = Returned("unload", TRUE, TRUE, -1, <<>>)
                 /\ UNCHANGED crashed
            \/ /\ DanglingIn(heap, sessions) # {}
               /\ crashed' = TRUE
               /\ last' = Returned("unload", FALSE, TRUE, -1, <<>>)
               /\ UNCHANGED <<heap, models, sessions>>
    /\ UNCHANGED <<now, backend>>

(***************************************************************************)
(* nativeShutdown: sessions.clear(), models.clear(), llama_backend_free()  *)
(***************************************************************************)
ClearModels(H, M) ==
    [i \in DOMAIN H |-> IF \E id \in DOMAIN M : M[id] = i THEN DestroyManager(H[i]) ELSE H[i]]

\* faulty variant of ShutdownOrder: the models are cleared before the sessions
ShutdownOrder_ModelsFirst == <<"models", "sessions", "backend">>

\* lines 291-294: the statements of nativeShutdown, in program order
ShutdownOrder == <<"sessions", "models", "backend">>

\* one statement of nativeShutdown applied to the registry st
ShutdownStep(st, what) ==
    CASE what = "sessions" -> [st EXCEPT !.sessions = EmptyMap]
      [] what = "models" -> [st EXCEPT !.heap = ClearModels(st.heap, st.models),
                                       !.models = EmptyMap]
      [] what = "backend" -> [st EXCEPT !.backend = FALSE]

\* the registry after each statement of order, run from st
RECURSIVE ShutdownStages(_, _)
ShutdownStages(st, order) ==
    IF order = <<>> THEN <<>>
    ELSE LET n == ShutdownStep(st, Head(order))
         IN  <<n>> \o ShutdownStages(n, Tail(order))

\* the registry as nativeShutdown finds it
Registry == [sessions |-> sessions, heap |-> heap, models |-> models, backend |-> backend]

NativeShutdown ==
    /\ ~crashed
    /\ LET stages == ShutdownStages(Registry, ShutdownOrder)
           fin == stages[Len(stages)]
       IN  /\ sessions' = fin.sessions
           /\ heap' = fin.heap
           /\ models' = fin.models
           /\ backend' = fin.backend
    /\ last' = Returned("shutdown", TRUE, FALSE, -1, <<>>)
    /\ UNCHANGED <<now, crashed>>

\* a millisecond of wall-clock time passes
Tick ==
    /\ now < MaxClock
    /\ now' = now + 1
    /\ UNCHANGED <<backend, heap, models, sessions, crashed, last>>

(***************************************************************************)
(* Spec: the entry points, one call at a time                              *)
(***************************************************************************)
RegistryInit ==
    /\ now = 0
    /\ backend = FALSE
    /\ heap = <<>>
    /\ models = EmptyMap
    /\ sessions = EmptyMap
    /\ crashed = FALSE
    /\ last = [seq |-> 0, op |-> "none", ok |-> TRUE, hit |-> FALSE, sid |-> -1,
               text |-> <<>>, exit |-> "none"]
    /\ unloaded = {}

\* EngineSpec and SamplerSpec at rest
EngineIdle ==
    /\ eng = GenerationEngine(1, TRUE, 0)
    /\ elast = [seq |-> 0, op |-> "new", prev |-> "none", ok |-> TRUE, text |-> <<>>,
                sampled |-> FALSE, decoded |-> FALSE, emitted |-> 0,
                cancelled |-> FALSE]

SamplerIdle ==
    /\ slogits = [i \in Vocab |-> Fin(0)]
    /\ stoken = -1

Threads == 1 .. MaxThreads

ThreadsIdle ==
    /\ pc = [t \in Threads |-> "idle"]
    /\ mutex = 0
    /\ decoding = [t \in Threads |-> 0]
    /\ interfered = [t \in Threads |-> FALSE]

\* ManagerSpec at rest
ManagerIdle ==
    /\ mm = ModelManager(0, SuffixMin)
    /\ ledger = [model |-> <<>>, context |-> <<>>]
    /\ mlast = [seq |-> 0, op |-> "new", prev |-> "none", ok |-> TRUE, events |-> <<>>]

Init == RegistryInit /\ EngineIdle /\ SamplerIdle /\ ThreadsIdle /\ ManagerIdle

InitBackend == \E b \in BackendTypes : NativeInitializeBackend(b)
Load == \E r \in Suffixes, loadOk \in BOOLEAN, ctxOk \in BOOLEAN :
            NativeLoadModel(r, loadOk, ctxOk)
Start == \E mid \in ModelIds, a \in StartAnswers, maxTokens \in RegistryBudgets :
            NativeStartGeneration(mid, a.toks, a.fill, a.dec, maxTokens)
NextToken == \E sid \in SessionIds, logits \in PeakedLogits, dec \in Statuses :
            NativeGenerateNextToken(sid, logits, dec)
Embed == \E mid \in ModelIds, a \in EmbedAnswers :
            NativeGenerateEmbedding(mid, a.n, a.dec, a.emb)
Unload == \E mid \in ModelIds : NativeUnloadModel(mid)
Shutdown == NativeShutdown

RegistryOnly == UNCHANGED <<historyVars, engineVars, samplerVars, threadVars, managerVars>>

Next ==
    \/ InitBackend /\ RegistryOnly
    \/ Load /\ RegistryOnly
    \/ Start /\ RegistryOnly
    \/ NextToken /\ RegistryOnly
    \/ Embed /\ RegistryOnly
    \/ Unload /\ RegistryOnly
    \/ Shutdown /\ RegistryOnly
    \/ Tick /\ RegistryOnly

Spec == Init /\ [][Next]_vars

(***************************************************************************)
(* HistorySpec: Spec with a history variable, the session ids that         *)
(* nativeUnloadModel has erased so far                                     *)
(***************************************************************************)
ErasedByUnload ==
    IF last'.seq # last.seq /\ last'.op = "unload"
    THEN (DOMAIN sessions) \ (DOMAIN sessions')
    ELSE {}

Recorded ==
    /\ unloaded' = unloaded \cup ErasedByUnload
    /\ UNCHANGED <<engineVars, samplerVars, threadVars, managerVars>>

HistoryNext ==
    \/ InitBackend /\ Recorded
    \/ Load /\ Recorded
    \/ Start /\ Recorded
    \/ NextToken /\ Recorded
    \/ Embed /\ Recorded
    \/ Unload /\ Recorded
    \/ Shutdown /\ Recorded
    \/ Tick /\ Recorded

HistorySpec == Init /\ [][HistoryNext]_vars

(***************************************************************************)
(* EngineSpec: one GenerationEngine, bound to manager 1, driven through    *)
(* startGeneration, generateNextToken and cancel                           *)
(***************************************************************************)
\* what a method of the engine returned
\*   prev     the method called before this one
\*   emitted  the non-empty fragments returned since the last successful start
\*   cancelled  cancel() has been called and no startGeneration has succeeded since
EReturned(op, ok, text, sampled, decoded, emitted) ==
    [seq |-> 1 - elast.seq, op |-> op, prev |-> elast.op, ok |-> ok, text |-> text,
     sampled |-> sampled, decoded |-> decoded, emitted |-> emitted,
     cancelled |-> IF op = "cancel" THEN TRUE
                   ELSE IF op = "start" /\ ok THEN FALSE
                   ELSE elast.cancelled]

EngineInit ==
    /\ RegistryInit /\ SamplerIdle /\ ThreadsIdle /\ ManagerIdle
    /\ \E loaded \in BOOLEAN, maxTokens \in Budgets :
          eng = GenerationEngine(1, loaded, maxTokens)
    /\ elast = [seq |-> 0, op |-> "new", prev |-> "none", ok |-> TRUE, text |-> <<>>,
                sampled |-> FALSE, decoded |-> FALSE, emitted |-> 0,
                cancelled |-> FALSE]

EStart(toks, fill, dec) ==
    LET r == startGeneration(eng, toks, fill, dec, now)
    IN  /\ eng' = r.eng
        /\ elast' = EReturned("start", r.ok, <<>>, FALSE, r.decoded,
                              IF r.ok THEN 0 ELSE elast.emitted)

EStep(logits, dec) ==
    LET r == generateNextToken(eng, logits, dec)
    IN  /\ Len(r.eng.tokens) <= MaxLen
        /\ r.eng.currentTokenIndex <= MaxLen
        /\ eng' = r.eng
        /\ elast' = EReturned("step", TRUE, r.text, r.sampled, r.decoded,
                              IF r.text # <<>> THEN elast.emitted + 1 ELSE elast.emitted)

ECancel ==
    /\ eng' = cancel(eng)
    /\ elast' = EReturned("cancel", TRUE, <<>>, FALSE, FALSE, elast.emitted)

EngineStart == \E toks \in PromptTokens, fill \in Statuses, dec \in Statuses :
                  EStart(toks, fill, dec)
\* generateNextToken reads the logits through sampleToken only, and PeakedLogits
\* makes it return every token of the vocabulary
EngineStep == \E logits \in PeakedLogits, dec \in Statuses : EStep(logits, dec)
EngineCancel == ECancel

EngineOnly == UNCHANGED <<registryVars, historyVars, samplerVars, threadVars, managerVars>>

EngineNext ==
    \/ EngineStart /\ EngineOnly
    \/ EngineStep /\ EngineOnly
    \/ EngineCancel /\ EngineOnly

EngineSpec == EngineInit /\ [][EngineNext]_vars

(***************************************************************************)
(* SamplerSpec: sampleToken applied to every logits buffer of the bounds   *)
(***************************************************************************)
SamplerInit ==
    /\ RegistryInit /\ EngineIdle /\ ThreadsIdle /\ ManagerIdle
    /\ slogits \in LogitVectors
    /\ stoken = -1

\* llama_token token = sampleToken()
Sample ==
    /\ stoken = -1
    /\ stoken' = sampleToken(slogits)
    /\ UNCHANGED slogits

\* a decode refreshes the logits buffer
Refresh ==
    /\ stoken # -1
    /\ slogits' \in LogitVectors
    /\ stoken' = -1

SamplerOnly == UNCHANGED <<registryVars, historyVars, engineVars, threadVars, managerVars>>

SamplerNext ==
    \/ Sample /\ SamplerOnly
    \/ Refresh /\ SamplerOnly

SamplerSpec == SamplerInit /\ [][SamplerNext]_vars

(***************************************************************************)
(* ManagerSpec: one ModelManager driven through loadModel, unloadModel and *)
(* its destructor                                                          *)
(***************************************************************************)
\* what a method of the manager did
\*   prev    the method called before this one
\*   events  the backend objects it created and released, in program order
MReturned(op, ok, events) ==
    [seq |-> 1 - mlast.seq, op |-> op, prev |-> mlast.op, ok |-> ok, events |-> events]

MLoad(loadOk, ctxOk) ==
    /\ mm.alive
    /\ loadOk => Len(ledger.model) < MaxLoads
    /\ LET r == loadModel(mm, loadOk, ctxOk)
       IN  /\ mm' = r.mgr
           /\ ledger' = Post(ledger, LoadEvents(loadOk, ctxOk))
           /\ mlast' = MReturned("load", r.ok, LoadEvents(loadOk, ctxOk))

MUnload ==
    /\ mm.alive
    /\ mm' = unloadModel(mm)
    /\ ledger' = Post(ledger, UnloadEvents(mm))
    /\ mlast' = MReturned("unload", TRUE, UnloadEvents(mm))

\* ~ModelManager calls unloadModel
MDestroy ==
    /\ mm.alive
    /\ mm' = DestroyManager(mm)
    /\ ledger' = Post(ledger, UnloadEvents(mm))
    /\ mlast' = MReturned("destroy", TRUE, UnloadEvents(mm))

ManagerLoad == \E loadOk \in BOOLEAN, ctxOk \in BOOLEAN : MLoad(loadOk, ctxOk)
ManagerUnload == MUnload
ManagerDestroy == MDestroy

ManagerOnly == UNCHANGED <<registryVars, historyVars, engineVars, samplerVars, threadVars>>

ManagerNext ==
    \/ ManagerLoad /\ ManagerOnly
    \/ ManagerUnload /\ ManagerOnly
    \/ ManagerDestroy /\ ManagerOnly

ManagerSpec == Init /\ [][ManagerNext]_vars

(***************************************************************************)
(* Properties                                                              *)
(***************************************************************************)
\* the step is a return of entry point op
Called(op) == last'.seq # last.seq /\ last'.op = op

Registered(m) == \E id \in DOMAIN models : models[id] = m

\* C1: a successful startGeneration registers a streaming session under the
\* returned id; every nextToken on a registered session returns, and either
\* returns a non-empty fragment and leaves the session registered, one token
\* further, or returns the empty result, and then the session is absent from
\* the registry right after that call
C1_StreamThenOneTerminator ==
    [][/\ (Called("start") /\ last'.ok) =>
            /\ last'.sid \in DOMAIN sessions'
            /\ ~sessions'[last'.sid].isComplete
       /\ (Called("next") /\ last'.sid \in DOMAIN sessions) =>
            LET sid == last'.sid
                e == sessions[sid]
            IN  /\ ~crashed'
                /\ last'.ok
                /\ (last'.text = <<>>) => sid \notin DOMAIN sessions'
                /\ (last'.text # <<>>) =>
                      /\ sid \in DOMAIN sessions'
                      /\ sessions'[sid].currentTokenIndex = e.currentTokenIndex + 1
      ]_vars

\* C2: every registered session is bound to a manager that is alive and
\* registered in the model map
C2_NoSessionOutlivesItsModel ==
    \A s \in DOMAIN sessions :
        /\ ~Dangling(sessions[s])
        /\ Registered(sessions[s].modelManager)

\* C5: a successful startSession returns an id that was not registered, adds
\* exactly that session and leaves every registered session as it was
C5_StartAddsOneSession ==
    [][(Called("start") /\ last'.ok) =>
          /\ last'.sid \notin DOMAIN sessions
          /\ DOMAIN sessions' = (DOMAIN sessions) \cup {last'.sid}
          /\ \A s \in DOMAIN sessions : sessions'[s] = sessions[s]
      ]_vars

\* C6: nextToken on an id that is not registered returns empty, raises no
\* error and leaves the model map, the session map and the managers unchanged
C6_UnknownSessionIsEndOfStream ==
    [][(Called("next") /\ last'.sid \notin DOMAIN sessions) =>
          /\ last'.text = <<>>
          /\ last'.ok
          /\ sessions' = sessions
          /\ models' = models
          /\ heap' = heap
          /\ ~crashed'
      ]_vars

\* nextToken has answered for an id that was not registered
C6_Witness ==
    /\ last.op = "next" /\ ~last.hit
    /\ last.text = <<>>
    /\ DOMAIN sessions # {}

\* C7: a startSession whose model id is not registered, or whose prompt the
\* backend rejects at tokenization or at priming, reports an error, returns
\* no session id and leaves the model map and the session map unchanged
C7_FailedStartChangesNothing ==
    [][\A mid \in ModelIds, a \in StartAnswers, maxTokens \in RegistryBudgets :
          (/\ NativeStartGeneration(mid, a.toks, a.fill, a.dec, maxTokens)
           /\ (mid \notin DOMAIN models \/ a.fill < 0 \/ a.dec # 0)) =>
             /\ ~last'.ok
             /\ last'.sid = -1
             /\ sessions' = sessions
             /\ models' = models
             /\ heap' = heap
      ]_vars

\* a start was rejected by the backend while a model and a session are registered
C7_Witness ==
    /\ last.op = "start" /\ ~last.ok /\ last.hit
    /\ DOMAIN sessions # {}

\* C4: once unloadModel has erased the sessions bound to the model it
\* destroys, every later nextToken on one of those session ids returns empty
C4_UnloadedSessionsStayEnded ==
    (last.op = "next" /\ last.sid \in unloaded) => last.text = <<>>

(***************************************************************************)
(* ThreadSpec: threads calling the entry points. Every entry point but     *)
(* nativeInitializeBackend takes                                           *)
(* std::lock_guard<std::mutex> lock(state.mutex) before it reads the maps  *)
(* and holds it until it returns; a call that reaches llama_decode stays   *)
(* in it for a while. nativeInitializeBackend takes no lock and touches no *)
(* map.                                                                    *)
(*   pc        "idle", "wait" (blocked on the mutex), "locked" (in the     *)
(*             entry point), "decoding" (inside llama_decode)              *)
(*   decoding  the manager whose context the thread is decoding on         *)
(*   interfered  another call returned while the thread was in its entry   *)
(*             point, so the maps it read may have changed under it        *)
(***************************************************************************)
\* the manager on whose context each entry point calls llama_decode, 0 if none
StartDecodesOn(mid, toks, fill, dec, maxTokens) ==
    IF mid \in DOMAIN models
       /\ startGeneration(GenerationEngine(models[mid], heap[models[mid]].context,
                                           maxTokens), toks, fill, dec, now).decoded
    THEN models[mid] ELSE 0

NextDecodesOn(sid, logits, dec) ==
    IF sid \in DOMAIN sessions /\ generateNextToken(sessions[sid], logits, dec).decoded
    THEN sessions[sid].modelManager ELSE 0

EmbedDecodesOn(mid, n) ==
    IF mid \in DOMAIN models /\ EmbeddingDecodes(heap[models[mid]], n)
    THEN models[mid] ELSE 0

\* some call of the entry points decodes on the context of manager m
DecodesOn(m) ==
    \/ \E mid \in ModelIds, a \in StartAnswers, maxTokens \in RegistryBudgets :
          StartDecodesOn(mid, a.toks, a.fill, a.dec, maxTokens) = m
    \/ \E sid \in SessionIds, logits \in PeakedLogits, dec \in Statuses :
          NextDecodesOn(sid, logits, dec) = m
    \/ \E mid \in ModelIds, a \in EmbedAnswers : EmbedDecodesOn(mid, a.n) = m

\* the entry point returns, having decoded on the context of manager m (0: on none)
ReturnsAfter(m) ==
    \/ m = 0 /\ Load
    \/ \E mid \in ModelIds, a \in StartAnswers, maxTokens \in RegistryBudgets :
          /\ StartDecodesOn(mid, a.toks, a.fill, a.dec, maxTokens) = m
          /\ NativeStartGeneration(mid, a.toks, a.fill, a.dec, maxTokens)
    \/ \E sid \in SessionIds, logits \in PeakedLogits, dec \in Statuses :
          /\ NextDecodesOn(sid, logits, dec) = m
          /\ NativeGenerateNextToken(sid, logits, dec)
    \/ \E mid \in ModelIds, a \in EmbedAnswers :
          /\ EmbedDecodesOn(mid, a.n) = m
          /\ NativeGenerateEmbedding(mid, a.n, a.dec, a.emb)
    \/ m = 0 /\ Unload
    \/ m = 0 /\ Shutdown

\* faulty variant of MutexFree: the entry points do not wait for the mutex
MutexFree_NoLock == TRUE

\* std::lock_guard: the constructor returns when no thread holds the mutex
MutexFree == mutex = 0

\* the thread is between the lock_guard's constructor and its destructor
Inside(t) == pc[t] \in {"locked", "decoding"}

TCall(t) ==
    /\ pc[t] = "idle"
    /\ pc' = [pc EXCEPT ![t] = "wait"]
    /\ UNCHANGED <<registryVars, mutex, decoding, interfered>>

TLock(t) ==
    /\ pc[t] = "wait"
    /\ MutexFree
    /\ mutex' = t
    /\ pc' = [pc EXCEPT ![t] = "locked"]
    /\ UNCHANGED <<registryVars, decoding, interfered>>

TDecode(t) ==
    /\ pc[t] = "locked"
    /\ ~crashed
    /\ \E m \in 1 .. Len(heap) :
          /\ DecodesOn(m)
          /\ decoding' = [decoding EXCEPT ![t] = m]
    /\ pc' = [pc EXCEPT ![t] = "decoding"]
    /\ UNCHANGED <<registryVars, mutex, interfered>>

\* the entry point runs to its return; the lock_guard releases the mutex
TReturn(t) ==
    /\ pc[t] \in {"locked", "decoding"}
    /\ ReturnsAfter(decoding[t])
    /\ pc' = [pc EXCEPT ![t] = "idle"]
    /\ decoding' = [decoding EXCEPT ![t] = 0]
    /\ mutex' = IF mutex = t THEN 0 ELSE mutex
    /\ interfered' = [u \in Threads |->
                        IF u = t THEN FALSE ELSE interfered[u] \/ Inside(u)]

\* nativeInitializeBackend: no lock_guard, runs whatever the other threads do
TInit(t) ==
    /\ pc[t] = "idle"
    /\ InitBackend
    /\ UNCHANGED threadVars

ThreadsOnly == UNCHANGED <<historyVars, engineVars, samplerVars, managerVars>>

ThreadNext ==
    \/ \E t \in Threads : TCall(t) /\ ThreadsOnly
    \/ \E t \in Threads : TLock(t) /\ ThreadsOnly
    \/ \E t \in Threads : TDecode(t) /\ ThreadsOnly
    \/ \E t \in Threads : TReturn(t) /\ ThreadsOnly
    \/ \E t \in Threads : TInit(t) /\ ThreadsOnly
    \/ Tick /\ UNCHANGED threadVars /\ ThreadsOnly

ThreadSpec == Init /\ [][ThreadNext]_vars

\* C3: no two threads are inside llama_decode on the same context at once
C3_OneDecodePerContext ==
    \A t1 \in Threads, t2 \in Threads :
        (t1 # t2 /\ decoding[t1] # 0) => decoding[t1] # decoding[t2]

\* a thread is inside llama_decode on a context while another thread, having
\* called an entry point, waits for the mutex
C3_Witness ==
    \E t1 \in Threads, t2 \in Threads :
        /\ pc[t1] = "decoding" /\ decoding[t1] # 0
        /\ pc[t2] = "wait"
        /\ Cardinality(DOMAIN sessions) >= 2

(***************************************************************************)
(* Properties of the engine and of the sampler                             *)
(***************************************************************************)
\* the step is a return of method op of the engine
ECalled(op) == elast'.seq # elast.seq /\ elast'.op = op

\* C8: cancel() sets the completion flag and nothing else, so a second cancel,
\* or a cancel after completion, leaves the engine as it is; every
\* generateNextToken that follows a cancel, with no startGeneration having
\* succeeded in between, returns empty without sampling or decoding and leaves
\* the engine as it is, whatever budget remains
C8_CancelEndsGeneration ==
    [][/\ ECalled("cancel") =>
            /\ eng' = [eng EXCEPT !.isComplete = TRUE]
            /\ (eng.isComplete => eng' = eng)
       /\ (ECalled("step") /\ elast.cancelled) =>
            /\ elast'.text = <<>>
            /\ ~elast'.sampled
            /\ ~elast'.decoded
            /\ eng' = eng
      ]_vars

\* generateNextToken has answered after a cancel, on a primed engine with
\* budget left
C8_Witness ==
    /\ elast.op = "step" /\ elast.cancelled
    /\ eng.context
    /\ Len(eng.tokens) > 0
    /\ eng.currentTokenIndex < eng.maxTokens

\* C9: on an engine bound to a context with budget N, the calls that return
\* a fragment number at most N, and a generateNextToken made when the cursor
\* has reached N completes the engine and returns empty without sampling or
\* decoding
C9_BudgetEndsGeneration ==
    [][/\ (ECalled("step") /\ elast'.text # <<>>) => elast'.emitted <= eng.maxTokens
       /\ (ECalled("step") /\ eng.context
           /\ eng.currentTokenIndex >= eng.maxTokens) =>
            /\ eng'.isComplete
            /\ elast'.text = <<>>
            /\ ~elast'.sampled
            /\ ~elast'.decoded
      ]_vars

AllFinite(logits) == \A i \in Vocab : IsFinite(logits[i])

\* C10: on logits that are all finite, sampleToken returns a token of the
\* highest score, and the lowest token id among those that share it
C10_GreedyPicksLowestArgmax ==
    (stoken # -1 /\ AllFinite(slogits)) =>
        /\ stoken \in Vocab
        /\ \A i \in Vocab :
              /\ slogits[i].v <= slogits[stoken].v
              /\ (slogits[i].v = slogits[stoken].v => stoken <= i)

\* sampleToken has answered on finite logits whose highest score is shared by
\* two tokens, neither of them token 0
C10_Witness ==
    /\ stoken > 0
    /\ AllFinite(slogits)
    /\ \E i \in Vocab : i > stoken /\ slogits[i] = slogits[stoken]
    /\ \E i \in Vocab : i < stoken /\ slogits[i].v < slogits[stoken].v

\* C11: while some score of the buffer is finite, sampleToken returns a token
\* whose score is finite; when no score is finite it returns no token id
C11_NonFiniteNeverSelected ==
    stoken # -1 =>
        /\ (\E i \in Vocab : IsFinite(slogits[i])) =>
              (stoken \in Vocab /\ IsFinite(slogits[stoken]))
        /\ (\A i \in Vocab : ~IsFinite(slogits[i])) => stoken \notin Vocab

(***************************************************************************)
(* Properties of the per-token step seen through the registry              *)
(***************************************************************************)
\* the return statements generateNextToken leaves through on a rejected
\* token-to-text conversion and on a rejected single-token decode
StepFailures == {"caught", "decode"}

\* C12: a nextToken whose step had its token-to-text conversion or its
\* single-token decode rejected raises no error and returns the empty
\* result, the engine is Complete when generateNextToken returns, and the
\* session is gone from the registry after the call
C12_StepFailureEndsStream ==
    [][(Called("next") /\ last'.exit \in StepFailures) =>
          /\ last'.ok
          /\ ~crashed'
          /\ last'.text = <<>>
          /\ last'.sid \notin DOMAIN sessions'
          /\ \A logits \in PeakedLogits, dec \in Statuses :
                LET r == generateNextToken(sessions[last'.sid], logits, dec)
                IN  r.exit \in StepFailures => (r.eng.isComplete /\ r.text = <<>>)
      ]_vars

\* a nextToken has just ended a session on a rejected decode while another
\* session stays registered
C12_Witness ==
    /\ last.op = "next" /\ last.exit = "decode"
    /\ last.sid \notin DOMAIN sessions
    /\ DOMAIN sessions # {}

\* C13: a successful load returns an id that no registered model has: the
\* model map grows by one entry, and every manager that was registered stays
\* registered under its id and alive
C13_LoadNeverReplaces ==
    [][(Called("load") /\ last'.ok) =>
          /\ Cardinality(DOMAIN models') = Cardinality(DOMAIN models) + 1
          /\ \A id \in DOMAIN models :
                /\ id \in DOMAIN models'
                /\ models'[id] = models[id]
                /\ heap'[models[id]].alive
      ]_vars

\* C14: nativeShutdown first empties the session map with the models and the
\* backend untouched, then empties the model map and destroys every registered
\* manager with the backend still held, then frees the backend; no session is
\* ever left bound to a destroyed manager on the way; the call raises no error
\* and leaves both maps empty, on every registry, an empty one included
C14_ShutdownOrder ==
    [][Called("shutdown") =>
          LET stages == ShutdownStages(Registry, ShutdownOrder)
          IN  /\ Len(stages) = 3
              /\ stages[1].sessions = EmptyMap
              /\ stages[1].models = models /\ stages[1].heap = heap
              /\ stages[1].backend = backend
              /\ stages[2].models = EmptyMap
              /\ \A id \in DOMAIN models : ~stages[2].heap[models[id]].alive
              /\ stages[2].backend = backend
              /\ ~stages[3].backend
              /\ \A k \in 1 .. 3 : DanglingIn(stages[k].heap, stages[k].sessions) = {}
              /\ sessions' = EmptyMap /\ models' = EmptyMap /\ ~backend'
              /\ last'.ok /\ ~crashed'
      ]_vars

\* nativeShutdown has returned on a registry that held a model: the maps are
\* empty, the manager is destroyed and the backend is freed
C14_Witness ==
    /\ last.op = "shutdown" /\ last.ok
    /\ sessions = EmptyMap /\ models = EmptyMap /\ ~backend
    /\ \E i \in 1 .. Len(heap) : ~heap[i].alive

(***************************************************************************)
(* Properties of the ModelManager                                          *)
(***************************************************************************)
\* the step is a return of method op of the manager
MCalled(op) == mlast'.seq # mlast.seq /\ mlast'.op = op

Released(events, what) == \E i \in DOMAIN events : events[i] = what

\* C15: unloadModel, called directly or by the destructor, releases exactly
\* what the manager holds, the context before the Model Handle, raises no
\* error and leaves the manager holding nothing; called right after an
\* unloadModel it releases nothing
C15_UnloadOrderIdempotent ==
    [][(MCalled("unload") \/ MCalled("destroy")) =>
          LET ev == mlast'.events
          IN  /\ mlast'.ok
              /\ Released(ev, "free_context") <=> mm.context
              /\ Released(ev, "free_model") <=> mm.model
              /\ \A i \in DOMAIN ev, j \in DOMAIN ev :
                    (ev[i] = "free_context" /\ ev[j] = "free_model") => i < j
              /\ ~mm'.model /\ ~mm'.context
              /\ (mlast.op = "unload") => (ev = <<>> /\ ledger' = ledger)
      ]_vars

\* the destructor has run right after an explicit unloadModel of a manager
\* that had loaded a model, and has released nothing
C15_Witness ==
    /\ mlast.op = "destroy" /\ mlast.prev = "unload"
    /\ mlast.events = <<>>
    /\ ledger.model = <<1>> /\ ledger.context = <<1>>

\* C16: no Model Handle and no context the manager created is ever released
\* twice, and once the manager is destroyed each of them has been released
C16_ReleasedExactlyOnce ==
    /\ \A i \in DOMAIN ledger.model : ledger.model[i] <= 1
    /\ \A i \in DOMAIN ledger.context : ledger.context[i] <= 1
    /\ ~mm.alive =>
          /\ \A i \in DOMAIN ledger.model : ledger.model[i] = 1
          /\ \A i \in DOMAIN ledger.context : ledger.context[i] = 1

\* C17: a loadModel that fails reports the error, has released the Model
\* Handle it created, and leaves the manager holding neither a Model Handle
\* nor a context
C17_FailedLoadHoldsNothing ==
    [][(MCalled("load") /\ ~mlast'.ok) =>
          /\ Released(mlast'.events, "new_model") => Released(mlast'.events, "free_model")
          /\ ~mm'.model
          /\ ~mm'.context
      ]_vars

\* the entry points that read or modify state.models or state.sessions
MapCalls == {"load", "unload", "start", "next", "embed", "shutdown"}

\* C18: load, unload, start-session, next-token, embed and shutdown each run
\* wholly under the one mutex: no two threads are inside an entry point at
\* the same time, whoever is inside holds the mutex, and no call returns
\* while another is inside, so the maps are what the calls made of them one
\* after the other in the order their locks were taken.
C18_EntryPointsSerialised ==
    /\ \A t, u \in Threads : Inside(t) /\ Inside(u) => t = u
    /\ \A t \in Threads : Inside(t) => mutex = t
    /\ \A t \in Threads : ~interfered[t]

\* one thread is inside an entry point with sessions registered while another
\* is blocked on the mutex, after a map-touching call has returned
C18_Witness ==
    \E t, u \in Threads :
        /\ t # u
        /\ pc[t] = "locked" /\ mutex = t
        /\ pc[u] = "wait"
        /\ sessions # EmptyMap
        /\ last.op \in MapCalls

\* C19: an embed call on a model of the model map, whether it returns a
\* vector or throws, leaves the model map, the managers and the session map
\* as they were: no session is added or removed and every session keeps its
\* tokens, currentTokenIndex and isComplete, those of the same model too.
C19_EmbedLeavesSessionsAlone ==
    [][Called("embed") /\ last'.hit
         => /\ models' = models
            /\ heap' = heap
            /\ sessions' = sessions]_vars

\* an embed call has returned a vector for a model that has a running
\* session registered
C19_Witness ==
    /\ last.op = "embed" /\ last.hit /\ last.ok
    /\ \E mid \in DOMAIN models, s \in DOMAIN sessions :
          /\ sessions[s].modelManager = models[mid]
          /\ ~sessions[s].isComplete
          /\ sessions[s].tokens # <<>>

\* the step is an unloadModel that removed the model id session s is bound to
UnloadsModelOf(s) ==
    Called("unload") /\ last'.hit /\ getModelId(sessions[s]) \notin DOMAIN models'

\* C20: a registered session stays registered, with its tokens,
\* currentTokenIndex and isComplete as they were, through every call that
\* returns, except a nextToken on its own id, an unloadModel of its own
\* model, and shutdown: no load, no start, no embed, no nextToken on another
\* id and no unloadModel of another or an unknown model removes or changes it.
C20_IdleSessionStaysRegistered ==
    [][\A s \in DOMAIN sessions :
          (/\ ~crashed'
           /\ ~(Called("next") /\ last'.sid = s)
           /\ ~UnloadsModelOf(s)
           /\ ~Called("shutdown"))
          => /\ s \in DOMAIN sessions'
             /\ sessions'[s].tokens = sessions[s].tokens
             /\ sessions'[s].currentTokenIndex = sessions[s].currentTokenIndex
             /\ sessions'[s].isComplete = sessions[s].isComplete]_vars

\* the return statements of generateNextToken that follow isComplete = true
CompletingExits == {"budget", "eog", "caught", "decode"}

\* C21: a nextToken call removes its session only when generateNextToken
\* left the engine Complete (it set the flag, or found it set), and a step
\* that sampled a non-terminator token and decoded it leaves the session
\* registered.
C21_RemovedOnlyWhenComplete ==
    [][(Called("next") /\ last'.ok /\ last'.hit) =>
          /\ last'.sid \notin DOMAIN sessions'
                => \/ last'.exit \in CompletingExits
                   \/ last'.exit = "idle" /\ sessions[last'.sid].isComplete
          /\ last'.exit = "fragment" => last'.sid \in DOMAIN sessions'
      ]_vars

\* C22: once isComplete is true no call of startGeneration,
\* generateNextToken or cancel on the engine makes it false again, and every
\* generateNextToken made while it is true returns empty without sampling or
\* decoding.
C22_CompleteIsAbsorbing ==
    [][eng.isComplete =>
          /\ eng'.isComplete
          /\ ECalled("step") => /\ elast'.text = <<>>
                                /\ ~elast'.sampled
                                /\ ~elast'.decoded
      ]_vars

\* C23: a successful startGeneration leaves currentTokenIndex equal to the
\* number of prompt tokens; a generateNextToken on a primed engine whose
\* cursor equals its token count leaves them equal, a non-empty result
\* having appended exactly one token and advanced the cursor by one, an
\* empty result having changed neither.
C23_CursorTracksHistory ==
    [][/\ (ECalled("start") /\ elast'.ok) =>
            eng'.currentTokenIndex = Len(eng'.tokens)
       /\ (ECalled("step") /\ Len(eng.tokens) > 0
           /\ eng.currentTokenIndex = Len(eng.tokens)) =>
            /\ eng'.currentTokenIndex = Len(eng'.tokens)
            /\ elast'.text # <<>> =>
                  /\ Len(eng'.tokens) = Len(eng.tokens) + 1
                  /\ SubSeq(eng'.tokens, 1, Len(eng.tokens)) = eng.tokens
                  /\ eng'.currentTokenIndex = eng.currentTokenIndex + 1
            /\ elast'.text = <<>> =>
                  /\ eng'.tokens = eng.tokens
                  /\ eng'.currentTokenIndex = eng.currentTokenIndex
      ]_vars

\* C24: the budget is compared as a signed integer: on an engine bound to a
\* context, a generateNextToken made when currentTokenIndex >= maxTokens,
\* for zero and negative maxTokens too, returns empty and leaves the engine
\* Complete, and no generateNextToken of an engine with maxTokens <= 0
\* returns a fragment.
C24_SignedBudget ==
    [][/\ (ECalled("step") /\ eng.context
           /\ eng.currentTokenIndex >= eng.maxTokens) =>
            /\ elast'.text = <<>>
            /\ eng'.isComplete
       /\ (ECalled("step") /\ eng.maxTokens <= 0) => elast'.text = <<>>
      ]_vars
====
